---- MODULE Spec2Model ----
(***************************************************************************)
(* Model of data_cleanup.py: the attribution of a user-offer event log to  *)
(* offer instances (get_offer_data, check_user_offers,                     *)
(* clean_offers_by_user) and the two prior-completion counter passes.      *)
(***************************************************************************)
EXTENDS Integers, Sequences, FiniteSets, TLC

(* ------------------------------ bounds -------------------------------- *)
MaxEvents == 3
MaxTick == 1

(* --------------------------- program data ------------------------------ *)
HoursPerDay == 24

\* user ids and offer ids are strings in the data; integers keep their order
Users == {1, 2}
Offers == {1, 2, 3}
EventTypes == {"offer received", "offer viewed", "offer completed"}
Times == {HoursPerDay * k : k \in 0..MaxTick}

\* the offer catalog: offer_id -> offer_duration (days); offer 3 is not in it
portfolio == [o \in {1, 2} |-> IF o = 1 THEN 1 ELSE 0]

offer_duration_hours(o) == portfolio[o] * HoursPerDay

NaN == <<>>
Num(x) == <<x>>

Event == [user_id : Users, offer_id : Offers, event : EventTypes, time : Times]

\* the keys of a log of n events that sort_values(by=['person', 'time']) produced
SortedKeys(n) ==
    {k \in [1..n -> Users \X Times] :
        \A i \in 1..(n - 1) :
            \/ k[i][1] < k[i + 1][1]
            \/ k[i][1] = k[i + 1][1] /\ k[i][2] <= k[i + 1][2]}

MakeLog(n, k, p) ==
    [i \in 1..n |-> [user_id |-> k[i][1], time |-> k[i][2],
                     offer_id |-> p[i][1], event |-> p[i][2]]]

VARIABLES transcript_u, pc, user_idx, frames, offers_by_user, saved, error, calls

vars == <<transcript_u, pc, user_idx, frames, offers_by_user, saved, error, calls>>

(* ------------------------------ helpers -------------------------------- *)
Range(s) == {s[i] : i \in 1..Len(s)}

\* Series.unique(): the distinct values in order of first appearance
RECURSIVE Unique(_)
Unique(s) ==
    IF s = <<>> THEN <<>>
    ELSE LET init == Unique(SubSeq(s, 1, Len(s) - 1))
             x == s[Len(s)]
         IN IF x \in Range(init) THEN init ELSE Append(init, x)

RECURSIVE Flatten(_)
Flatten(ss) == IF ss = <<>> THEN <<>> ELSE Head(ss) \o Flatten(Tail(ss))

\* lexicographic order on key tuples of equal length
RECURSIVE TupleLt(_, _)
TupleLt(a, b) ==
    /\ a # <<>>
    /\ \/ Head(a) < Head(b)
       \/ Head(a) = Head(b) /\ TupleLt(Tail(a), Tail(b))

\* a stable sort of s by the key tuples keys[i]: equal keys keep their
\* relative order
StableSort(s, keys) ==
    LET n == Len(s)
        pos(i) == Cardinality({j \in 1..n :
                      \/ TupleLt(keys[j], keys[i])
                      \/ keys[j] = keys[i] /\ j < i}) + 1
    IN [p \in 1..n |-> s[CHOOSE i \in 1..n : pos(i) = p]]

\* '.'.join(str(x) for x in xs)
RECURSIVE JoinDot(_)
JoinDot(xs) ==
    IF xs = <<>> THEN ""
    ELSE IF Len(xs) = 1 THEN ToString(xs[1])
    ELSE ToString(xs[1]) \o "." \o JoinDot(Tail(xs))

(* --------------------------- get_offer_data ---------------------------- *)
\* variant: the window without its lower end
InWindowNoLower(t, time_received, dur) ==
    t <= time_received + dur

InWindow(t, time_received, dur) ==
    t >= time_received /\ t <= time_received + dur

OfferData(user_data, offer, time_received, dur) ==
    SelectSeq(user_data,
              LAMBDA e : InWindow(e.time, time_received, dur)
                         /\ e.offer_id = offer)

HasEvent(offer_data, ev) ==
    IF \E i \in 1..Len(offer_data) : offer_data[i].event = ev THEN 1 ELSE 0

\* variant: the time of the last matching event, iloc[-1]
LastTimeOf(offer_data, ev) ==
    LET sel == SelectSeq(offer_data, LAMBDA e : e.event = ev)
    IN sel[Len(sel)].time

\* offer_data[offer_data.event == ev].time.iloc[0]
FirstTimeOf(offer_data, ev) ==
    LET sel == SelectSeq(offer_data, LAMBDA e : e.event = ev)
    IN sel[1].time

\* 1 & x on a 0/1 flag
BitAnd1(x) == x % 2

\* variant: completion at the time of the view counted as before it
OfferViewedBeforeLeq(offer_completed, offer_viewed, time_completed, time_viewed) ==
    IF offer_completed = BitAnd1(offer_viewed) /\ BitAnd1(offer_viewed) = 1
    THEN IF time_completed[1] <= time_viewed[1] THEN Num(0) ELSE Num(1)
    ELSE IF offer_completed = BitAnd1(offer_viewed) /\ BitAnd1(offer_viewed) = 0
    THEN Num(0)
    ELSE NaN

\* "a == 1 & b == 1" is the chained comparison a == (1 & b) == 1
OfferViewedBefore(offer_completed, offer_viewed, time_completed, time_viewed) ==
    IF offer_completed = BitAnd1(offer_viewed) /\ BitAnd1(offer_viewed) = 1
    THEN IF time_completed[1] < time_viewed[1] THEN Num(0) ELSE Num(1)
    ELSE IF offer_completed = BitAnd1(offer_viewed) /\ BitAnd1(offer_viewed) = 0
    THEN Num(0)
    ELSE NaN

get_offer_data(user_data, offer, time_received, current_offer_duration) ==
    LET offer_data == OfferData(user_data, offer, time_received,
                                current_offer_duration)
        offer_completed == HasEvent(offer_data, "offer completed")
        offer_viewed == HasEvent(offer_data, "offer viewed")
        time_completed == IF offer_completed = 1
                          THEN Num(FirstTimeOf(offer_data, "offer completed"))
                          ELSE NaN
        time_viewed == IF offer_viewed = 1
                       THEN Num(FirstTimeOf(offer_data, "offer viewed"))
                       ELSE NaN
    IN [user_id |-> Unique([i \in 1..Len(offer_data) |-> offer_data[i].user_id])[1],
        offer_id |-> offer,
        completed |-> offer_completed,
        viewed |-> offer_viewed,
        viewed_before |-> OfferViewedBefore(offer_completed, offer_viewed,
                                            time_completed, time_viewed),
        time_received |-> time_received,
        time_viewed |-> time_viewed,
        time_completed |-> time_completed,
        offer_duration |-> current_offer_duration]

(* -------------------------- check_user_offers -------------------------- *)
ReceivedTimes(user_data, offer) ==
    LET sel == SelectSeq(user_data,
                   LAMBDA e : e.event = "offer received" /\ e.offer_id = offer)
    IN [i \in 1..Len(sel) |-> sel[i].time]

\* variant: the number of distinct receipt times
DistinctCount(received_times) == Cardinality(Range(received_times))

OfferCount(received_times) == Len(received_times)

Failure(kind, offer) == [ok |-> FALSE, kind |-> kind, offer |-> offer, rows |-> <<>>]
Success(rows) == [ok |-> TRUE, kind |-> "", offer |-> 0, rows |-> rows]

check_user_offers(user_data, offer) ==
    IF offer \notin DOMAIN portfolio
    THEN Failure("catalog lookup", offer)      \* .item() on an empty selection
    ELSE LET current_offer_duration == offer_duration_hours(offer)
             received_times == ReceivedTimes(user_data, offer)
             rows == [i \in 1..Len(received_times) |->
                        get_offer_data(user_data, offer, received_times[i],
                                       current_offer_duration)]
         IN IF rows = <<>>
            THEN Failure("concat of nothing", offer)   \* pd.concat([])
            ELSE Success([i \in 1..Len(rows) |->
                     [user_id |-> rows[i].user_id,
                      offer_id |-> rows[i].offer_id,
                      completed |-> rows[i].completed,
                      viewed |-> rows[i].viewed,
                      viewed_before |-> rows[i].viewed_before,
                      time_received |-> rows[i].time_received,
                      time_viewed |-> rows[i].time_viewed,
                      time_completed |-> rows[i].time_completed,
                      offer_duration |-> rows[i].offer_duration,
                      offer_count |-> OfferCount(received_times),
                      time_points |-> JoinDot(received_times)]])

(* ------------------------- clean_offers_by_user ------------------------ *)
UserTransactions(user) == SelectSeq(transcript_u, LAMBDA e : e.user_id = user)

\* user_transactions.offer_id.unique().tolist()
UserOffers(user_transactions) ==
    Unique([i \in 1..Len(user_transactions) |-> user_transactions[i].offer_id])

\* the list comprehension stops at the first check_user_offers that raises;
\* called lists the offers check_user_offers was run for
RECURSIVE CheckAll(_, _, _, _)
CheckAll(user_transactions, user_offers, acc, called) ==
    IF user_offers = <<>> THEN Success(acc) @@ [called |-> called]
    ELSE LET offer == Head(user_offers)
             r == check_user_offers(user_transactions, offer)
         IN IF r.ok
            THEN CheckAll(user_transactions, Tail(user_offers), acc \o r.rows,
                          Append(called, offer))
            ELSE r @@ [called |-> Append(called, offer)]

clean_offers_by_user(user) ==
    LET user_transactions == UserTransactions(user)
        user_offers == UserOffers(user_transactions)
    IN CheckAll(user_transactions, user_offers, <<>>, <<>>)

\* transcript_u.user_id.unique().tolist()
UserIds == Unique([i \in 1..Len(transcript_u) |-> transcript_u[i].user_id])

(* ----------------------- prior-completion counters --------------------- *)
UserOfferTimeKey(r) == <<r.user_id, r.offer_id, r.time_received>>
UserTimeKey(r) == <<r.user_id, r.time_received>>

\* variant: the first sort without the offer_id key
SortByUserTimeOnly(t) ==
    StableSort(t, [i \in 1..Len(t) |-> UserTimeKey(t[i])])

\* sort_values(by=['user_id', 'offer_id', 'time_received']).reset_index(drop=True)
SortByUserOfferTime(t) ==
    StableSort(t, [i \in 1..Len(t) |-> UserOfferTimeKey(t[i])])

\* sort_values(by=['user_id', 'time_received']).reset_index(drop=True)
SortByUserTime(t) ==
    StableSort(t, [i \in 1..Len(t) |-> UserTimeKey(t[i])])

RECURSIVE SumSeq(_)
SumSeq(xs) == IF xs = <<>> THEN 0 ELSE Head(xs) + SumSeq(Tail(xs))

UserOfferKey(r) == <<r.user_id, r.offer_id>>
UserKey(r) == <<r.user_id>>

\* groupby(by=...)['completed'].cumsum() in the row order of t, keys[i] the
\* group key of row i
GroupCumsum(t, keys) ==
    [i \in 1..Len(t) |->
        SumSeq([j \in 1..i |-> IF keys[j] = keys[i] THEN t[j].completed ELSE 0])]

\* variant: the running total without the subtraction
SameOfferCompletedInclusive(t) == GroupCumsum(t, [i \in 1..Len(t) |-> UserOfferKey(t[i])])

SameOfferCompletedBefore(t) ==
    LET cum == GroupCumsum(t, [i \in 1..Len(t) |-> UserOfferKey(t[i])])
    IN [i \in 1..Len(t) |-> cum[i] - t[i].completed]

AnyOfferCompletedBefore(t) ==
    LET cum == GroupCumsum(t, [i \in 1..Len(t) |-> UserKey(t[i])])
    IN [i \in 1..Len(t) |-> cum[i] - t[i].completed]

(* ------------------------------- actions ------------------------------- *)
NoError == [kind |-> "", offer |-> 0, user |-> 0]

Init ==
    /\ \E n \in 0..MaxEvents :
         \E k \in SortedKeys(n) :
            \E p \in [1..n -> Offers \X EventTypes] :
               transcript_u = MakeLog(n, k, p)
    /\ pc = "enumerate"
    /\ user_idx = 0
    /\ frames = <<>>
    /\ offers_by_user = <<>>
    /\ saved = FALSE
    /\ error = NoError
    /\ calls = <<>>

\* one element of [clean_offers_by_user(user) for user in ...]
CleanOffersByUser ==
    /\ pc = "enumerate"
    /\ user_idx < Len(UserIds)
    /\ LET user == UserIds[user_idx + 1]
           r == clean_offers_by_user(user)
       IN /\ calls' = calls \o [i \in 1..Len(r.called) |-> <<user, r.called[i]>>]
          /\ IF r.ok
             THEN /\ frames' = Append(frames, r.rows)
                  /\ user_idx' = user_idx + 1
                  /\ UNCHANGED <<pc, error>>
             ELSE /\ pc' = "error"
                  /\ error' = [kind |-> r.kind, offer |-> r.offer, user |-> user]
                  /\ UNCHANGED <<frames, user_idx>>
    /\ UNCHANGED <<transcript_u, offers_by_user, saved>>

\* offers_by_user = pd.concat(offers_by_user)
ConcatUsers ==
    /\ pc = "enumerate"
    /\ user_idx = Len(UserIds)
    /\ IF frames = <<>>
       THEN /\ pc' = "error"
            /\ error' = [kind |-> "concat of nothing", offer |-> 0, user |-> 0]
            /\ UNCHANGED offers_by_user
       ELSE /\ pc' = "same_offer"
            /\ offers_by_user' = Flatten(frames)
            /\ UNCHANGED error
    /\ UNCHANGED <<transcript_u, user_idx, frames, saved, calls>>

\* the pass that adds same_offer_completed_before
SameOfferPass ==
    /\ pc = "same_offer"
    /\ LET t == SortByUserOfferTime(offers_by_user)
           c == SameOfferCompletedBefore(t)
       IN offers_by_user' =
            [i \in 1..Len(t) |-> t[i] @@ [same_offer_completed_before |-> c[i]]]
    /\ pc' = "any_offer"
    /\ UNCHANGED <<transcript_u, user_idx, frames, saved, error, calls>>

\* the pass that adds any_offer_completed_before
AnyOfferPass ==
    /\ pc = "any_offer"
    /\ LET t == SortByUserTime(offers_by_user)
           c == AnyOfferCompletedBefore(t)
       IN offers_by_user' =
            [i \in 1..Len(t) |-> t[i] @@ [any_offer_completed_before |-> c[i]]]
    /\ pc' = "save"
    /\ UNCHANGED <<transcript_u, user_idx, frames, saved, error, calls>>

\* offers_by_user.to_csv(...)
Save ==
    /\ pc = "save"
    /\ saved' = TRUE
    /\ pc' = "done"
    /\ UNCHANGED <<transcript_u, user_idx, frames, offers_by_user, error, calls>>

Next ==
    \/ CleanOffersByUser
    \/ ConcatUsers
    \/ SameOfferPass
    \/ AnyOfferPass
    \/ Save

Spec == Init /\ [][Next]_vars

(* ------------------------------ properties ----------------------------- *)
\* every instance emitted so far: the per-user frames and the table
Instances == Range(Flatten(frames)) \cup Range(offers_by_user)

Defined(x) == x # NaN

ReceiptsOf(user, offer) ==
    {i \in 1..Len(transcript_u) :
        /\ transcript_u[i].user_id = user
        /\ transcript_u[i].offer_id = offer
        /\ transcript_u[i].event = "offer received"}

\* the times of the user's events of one kind for the offer inside the
\* closed window of the instance r
WindowTimes(r, ev) ==
    {transcript_u[i].time : i \in {j \in 1..Len(transcript_u) :
        /\ transcript_u[j].user_id = r.user_id
        /\ transcript_u[j].offer_id = r.offer_id
        /\ transcript_u[j].event = ev
        /\ r.time_received <= transcript_u[j].time
        /\ transcript_u[j].time <= r.time_received + r.offer_duration}}

Least(S) == CHOOSE x \in S : \A y \in S : x <= y

\* C1: for every emitted instance, viewed_before is defined iff completed is
\* true: 0 when completed and not viewed, undefined when not completed.
C1_ViewedBeforeDefinedIffCompleted ==
    \A r \in Instances :
        /\ Defined(r.viewed_before) <=> r.completed = 1
        /\ (r.completed = 1 /\ r.viewed = 0) => r.viewed_before = Num(0)
        /\ r.completed = 0 => r.viewed_before = NaN

\* C2: for every instance that is completed and viewed, viewed_before is 1
\* exactly when time_completed >= time_viewed and 0 exactly when
\* time_completed < time_viewed.
C2_ViewedBeforeComparesTimes ==
    \A r \in Instances :
        (r.completed = 1 /\ r.viewed = 1) =>
            /\ r.viewed_before = Num(1)
                 <=> ~(r.time_completed[1] < r.time_viewed[1])
            /\ r.viewed_before = Num(0)
                 <=> r.time_completed[1] < r.time_viewed[1]

C2_Witness ==
    \E r \in Instances :
        /\ r.completed = 1 /\ r.viewed = 1
        /\ r.time_completed = r.time_viewed
        /\ r.viewed_before = Num(1)

\* C3: for every instance, time_viewed is defined iff viewed, time_completed
\* is defined iff completed, and every defined timestamp lies in the closed
\* window [time_received, time_received + offer_duration].
C3_TimestampsDefinedAndInWindow ==
    \A r \in Instances :
        /\ Defined(r.time_viewed) <=> r.viewed = 1
        /\ Defined(r.time_completed) <=> r.completed = 1
        /\ Defined(r.time_viewed) =>
              /\ r.time_received <= r.time_viewed[1]
              /\ r.time_viewed[1] <= r.time_received + r.offer_duration
        /\ Defined(r.time_completed) =>
              /\ r.time_received <= r.time_completed[1]
              /\ r.time_completed[1] <= r.time_received + r.offer_duration

C3_Witness ==
    /\ pc = "done"
    /\ \E r \in Range(offers_by_user) :
          /\ r.viewed = 1 /\ r.completed = 0
          /\ r.offer_duration > 0
          /\ r.time_viewed = Num(r.time_received + r.offer_duration)
          /\ r.time_completed = NaN

\* C4: every receipt has its instance; the instance is completed iff a
\* completion of the offer lies in its closed window, and then time_completed
\* is the earliest such time; likewise viewed and time_viewed; a window with
\* neither event gives completed = viewed = 0 and undefined timestamps; each
\* window is evaluated on its own.
C4_WindowMatch ==
    /\ \A r \in Instances :
          /\ r.offer_duration = offer_duration_hours(r.offer_id)
          /\ ReceiptsOf(r.user_id, r.offer_id) # {}
          /\ r.completed = 1 <=> WindowTimes(r, "offer completed") # {}
          /\ r.viewed = 1 <=> WindowTimes(r, "offer viewed") # {}
          /\ r.completed = 1 =>
                r.time_completed = Num(Least(WindowTimes(r, "offer completed")))
          /\ r.viewed = 1 =>
                r.time_viewed = Num(Least(WindowTimes(r, "offer viewed")))
          /\ (WindowTimes(r, "offer completed") = {}
              /\ WindowTimes(r, "offer viewed") = {}) =>
                /\ r.completed = 0 /\ r.viewed = 0
                /\ r.time_completed = NaN /\ r.time_viewed = NaN
    /\ pc \in {"same_offer", "any_offer", "save", "done"} =>
          \A i \in 1..Len(transcript_u) :
             transcript_u[i].event = "offer received" =>
                Cardinality({j \in 1..Len(offers_by_user) :
                    /\ offers_by_user[j].user_id = transcript_u[i].user_id
                    /\ offers_by_user[j].offer_id = transcript_u[i].offer_id
                    /\ offers_by_user[j].time_received = transcript_u[i].time})
                = Cardinality({k \in ReceiptsOf(transcript_u[i].user_id,
                                                transcript_u[i].offer_id) :
                                  transcript_u[k].time = transcript_u[i].time})

\* one completion event attributed to two receipts of the same offer
C4_Witness ==
    /\ pc = "done"
    /\ \E r1, r2 \in Range(offers_by_user) :
          /\ r1.user_id = r2.user_id /\ r1.offer_id = r2.offer_id
          /\ r1.time_received < r2.time_received
          /\ r1.completed = 1 /\ r2.completed = 1
          /\ r1.time_completed = r2.time_completed
          /\ Cardinality({i \in 1..Len(transcript_u) :
                 transcript_u[i].event = "offer completed"}) = 1

SameUserOffer(a, b) == a.user_id = b.user_id /\ a.offer_id = b.offer_id
SameUser(a, b) == a.user_id = b.user_id

\* the completed instances of the group of row i that precede it in t
PriorSameOffer(t, i) ==
    Cardinality({j \in 1..(i - 1) : SameUserOffer(t[j], t[i]) /\ t[j].completed = 1})

PriorSameUser(t, i) ==
    Cardinality({j \in 1..(i - 1) : SameUser(t[j], t[i]) /\ t[j].completed = 1})

\* C5: after the counter passes, every (user, offer) group is in ascending
\* time_received order and same_offer_completed_before is the sum of completed
\* over the group's earlier instances; every user group is in ascending
\* time_received order and any_offer_completed_before is the sum of completed
\* over the user's earlier instances of any offer.
C5_ExclusivePrefixSums ==
    /\ pc \in {"any_offer", "save", "done"} =>
          \A i \in 1..Len(offers_by_user) :
             /\ offers_by_user[i].same_offer_completed_before
                   = PriorSameOffer(offers_by_user, i)
             /\ \A j \in 1..(i - 1) :
                   SameUserOffer(offers_by_user[j], offers_by_user[i]) =>
                      offers_by_user[j].time_received
                         <= offers_by_user[i].time_received
    /\ pc \in {"save", "done"} =>
          \A i \in 1..Len(offers_by_user) :
             /\ offers_by_user[i].any_offer_completed_before
                   = PriorSameUser(offers_by_user, i)
             /\ \A j \in 1..(i - 1) :
                   SameUser(offers_by_user[j], offers_by_user[i]) =>
                      offers_by_user[j].time_received
                         <= offers_by_user[i].time_received

C5_Witness ==
    /\ pc = "done"
    /\ \E i, j \in 1..Len(offers_by_user) :
          /\ i < j
          /\ SameUserOffer(offers_by_user[i], offers_by_user[j])
          /\ offers_by_user[i].time_received < offers_by_user[j].time_received
          /\ offers_by_user[i].completed = 1
          /\ offers_by_user[j].same_offer_completed_before = 1
          /\ offers_by_user[j].any_offer_completed_before = 1

\* C6: any_offer_completed_before is the number of the user's other instances
\* that were completed strictly before this instance's time_received, and
\* same_offer_completed_before that number for the same offer id.
C6_CountsCompletionsBeforeReceipt ==
    pc = "done" =>
       \A i \in 1..Len(offers_by_user) :
          LET me == offers_by_user[i]
              earlier == {j \in 1..Len(offers_by_user) :
                            /\ j # i
                            /\ SameUser(offers_by_user[j], me)
                            /\ offers_by_user[j].completed = 1
                            /\ offers_by_user[j].time_completed[1]
                                  < me.time_received}
          IN /\ me.any_offer_completed_before = Cardinality(earlier)
             /\ me.same_offer_completed_before =
                   Cardinality({j \in earlier :
                                   offers_by_user[j].offer_id = me.offer_id})

ReceiptTimes(user, offer) ==
    {transcript_u[i].time : i \in ReceiptsOf(user, offer)}

\* C7 (as claimed): instances of one (user, offer) pair agree on offer_count
\* and time_points, and offer_count is the number of distinct receipt
\* timestamps of the pair.
C7_OfferCountIsDistinctReceiptTimes ==
    \A r \in Instances :
        /\ \A q \in Instances : SameUserOffer(q, r) =>
              q.offer_count = r.offer_count /\ q.time_points = r.time_points
        /\ r.offer_count = Cardinality(ReceiptTimes(r.user_id, r.offer_id))

\* C7 (amended): instances of one (user, offer) pair agree on offer_count and
\* time_points, and offer_count is the number of 'offer received' events of
\* the pair, receipts at one timestamp counted once each.
C7_OfferCountIsReceiptCount ==
    \A r \in Instances :
        /\ \A q \in Instances : SameUserOffer(q, r) =>
              q.offer_count = r.offer_count /\ q.time_points = r.time_points
        /\ r.offer_count = Cardinality(ReceiptsOf(r.user_id, r.offer_id))

C7_Witness ==
    /\ pc = "done"
    /\ \E r \in Range(offers_by_user) :
          /\ r.offer_count = 2
          /\ r.time_points = "0.0"
          /\ Cardinality(ReceiptTimes(r.user_id, r.offer_id)) = 1

\* C8: the offer ids handed to check_user_offers for a user are exactly the
\* offer ids the user has an 'offer received' event for, so received_times is
\* never empty.
C8_EnumeratesOnlyReceivedOffers ==
    /\ \A i \in 1..Len(calls) : ReceiptsOf(calls[i][1], calls[i][2]) # {}
    /\ \A k \in 1..user_idx : \A o \in Offers :
          ReceiptsOf(UserIds[k], o) # {} =>
             \E i \in 1..Len(calls) : calls[i] = <<UserIds[k], o>>
    /\ ~(pc = "error" /\ error.kind = "concat of nothing" /\ error.user # 0)

UnknownReceipt ==
    \E i \in 1..Len(transcript_u) :
        /\ transcript_u[i].event = "offer received"
        /\ transcript_u[i].offer_id \notin DOMAIN portfolio

\* C9: when a receipt references an offer id absent from the catalog, the
\* run fails at the catalog lookup of such an offer and no instance table is
\* produced or written.
C9_UnknownOfferFailsAtLookup ==
    UnknownReceipt =>
        /\ pc \in {"enumerate", "error"}
        /\ offers_by_user = <<>>
        /\ ~saved
        /\ ~(pc = "enumerate" /\ user_idx = Len(UserIds))
        /\ pc = "error" =>
              /\ error.kind = "catalog lookup"
              /\ error.offer \notin DOMAIN portfolio

\* what holds of the code for C9: the run never gets past the enumeration,
\* and a lookup of an absent offer, once reached, ends it
UnknownOfferAborts ==
    /\ UnknownReceipt =>
          /\ pc \in {"enumerate", "error"}
          /\ offers_by_user = <<>>
          /\ ~saved
          /\ ~(pc = "enumerate" /\ user_idx = Len(UserIds))
    /\ \A i \in 1..Len(calls) :
          calls[i][2] \notin DOMAIN portfolio =>
             /\ i = Len(calls)
             /\ pc = "error"
             /\ error = [kind |-> "catalog lookup", offer |-> calls[i][2],
                         user |-> calls[i][1]]

Identity(t) ==
    [i \in 1..Len(t) |-> <<t[i].user_id, t[i].offer_id, t[i].time_received>>]

====
